---- MODULE Spec2Model ----
(***************************************************************************)
(* Model of src/index.js: a Vuex store (state.users, SET_USERS, getUsers,  *)
(* updateUsers) talking to an HTTP endpoint through axios, with the        *)
(* camelcase-keys / snakecase-keys conversions installed as transforms.    *)
(*                                                                         *)
(* Strings are sequences of one-character strings, JSON values are tagged  *)
(* records, and wire text is a sequence of JSON tokens, so that            *)
(* JSON.stringify, JSON.parse and the key rewrites are computed and not    *)
(* assumed.                                                                *)
(*                                                                         *)
(* index.js imports camelcase-keys and snakecase-keys (lines 4-5) and      *)
(* calls them at lines 11, 17 and 43.  Their key rewrite is modelled by    *)
(* the algorithm of the packages: camelcase (camelCase below), and for     *)
(* snakecase-keys the two rewrites its releases have shipped: to-snake-case*)
(* (releases 1.x - 3.x) and snake-case (later releases).  The repository   *)
(* pins neither, so the release is a choice made once, at Init (snakeLib). *)
(***************************************************************************)
EXTENDS Integers, Sequences, FiniteSets, TLC

(***************************************************************************)
(* Characters and strings                                                  *)
(***************************************************************************)
LowerSeq == <<"a","b","c","d","e","f","g","h","i","j","k","l","m",
              "n","o","p","q","r","s","t","u","v","w","x","y","z">>

UpperSeq == <<"A","B","C","D","E","F","G","H","I","J","K","L","M",
              "N","O","P","Q","R","S","T","U","V","W","X","Y","Z">>

Lower == {LowerSeq[i] : i \in 1..Len(LowerSeq)}

Upper == {UpperSeq[i] : i \in 1..Len(UpperSeq)}

Digit == {"0","1","2","3","4","5","6","7","8","9"}

Letter == Lower \cup Upper

\* [_.\- ] of camelcase
CamelSep == {"_", ".", "-", " "}

IndexIn(seq, c) == CHOOSE i \in 1..Len(seq) : seq[i] = c

\* String.prototype.toLowerCase / toUpperCase on one character
toLowerCase(c) == IF c \in Upper THEN LowerSeq[IndexIn(UpperSeq, c)] ELSE c

toUpperCase(c) == IF c \in Lower THEN UpperSeq[IndexIn(LowerSeq, c)] ELSE c

lowerString(s) == [i \in 1..Len(s) |-> toLowerCase(s[i])]

Front(s) == SubSeq(s, 1, Len(s) - 1)

Last(s) == s[Len(s)]

Drop(s, n) == SubSeq(s, n + 1, Len(s))

(***************************************************************************)
(* camelcase: the key rewrite of camelcase-keys (src/index.js:11)          *)
(***************************************************************************)
RECURSIVE preserveFrom(_, _, _, _, _, _)
\* preserveCamelCase: a "-" is put before an upper-case letter that follows a
\* lower-case character, and before the last letter of an upper-case run
\* that a lower-case letter follows.  lo, up, up2 are isLastCharLower,
\* isLastCharUpper, isLastLastCharUpper.
preserveFrom(s, i, lo, up, up2, out) ==
  IF i > Len(s) THEN out
  ELSE LET c == s[i] IN
    IF lo /\ c \in Upper
      THEN preserveFrom(s, i + 1, FALSE, TRUE, up, out \o <<"-", c>>)
    ELSE IF up /\ up2 /\ c \in Lower
      THEN preserveFrom(s, i + 1, TRUE, FALSE, FALSE,
                        Front(out) \o <<"-", Last(out), c>>)
    ELSE preserveFrom(s, i + 1, c \in Lower, c \in Upper, up, Append(out, c))

preserveCamelCase(s) == preserveFrom(s, 1, FALSE, FALSE, FALSE, <<>>)

RECURSIVE stripLeadingSep(_)
\* .replace(/^[_.\- ]+/, '')
stripLeadingSep(s) ==
  IF s # <<>> /\ s[1] \in CamelSep THEN stripLeadingSep(Tail(s)) ELSE s

RECURSIVE joinWords(_)
\* .replace(/[_.\- ]+(\w|$)/g, (_, p1) => p1.toUpperCase()) on a string whose
\* characters are word characters and separators
joinWords(s) ==
  IF s = <<>> THEN <<>>
  ELSE IF s[1] \in CamelSep
    THEN LET r == stripLeadingSep(s) IN
         IF r = <<>> THEN <<>> ELSE <<toUpperCase(r[1])>> \o joinWords(Tail(r))
  ELSE <<s[1]>> \o joinWords(Tail(s))

camelCase(input) ==
  IF Len(input) = 0 THEN <<>>
  ELSE IF Len(input) = 1 THEN lowerString(input)
  ELSE LET hasUpperCase == input # lowerString(input)
           p == IF hasUpperCase THEN preserveCamelCase(input) ELSE input
       IN joinWords(lowerString(stripLeadingSep(p)))

(***************************************************************************)
(* to-snake-case (to-no-case, to-space-case): the key rewrite of           *)
(* snakecase-keys 1.x - 3.x (src/index.js:17, 43)                          *)
(***************************************************************************)
\* [\W_]
NonWord(c) == c \notin (Letter \cup Digit)

RECURSIVE skipNonWord(_)
skipNonWord(s) ==
  IF s # <<>> /\ NonWord(s[1]) THEN skipNonWord(Tail(s)) ELSE s

RECURSIVE separatorSplit(_)
\* .replace(/[\W_]+(.|$)/g, (m, next) => next ? ' ' + next : '')
separatorSplit(s) ==
  IF s = <<>> THEN <<>>
  ELSE IF NonWord(s[1])
    THEN LET r == skipNonWord(s) IN
         IF r = <<>> THEN <<>> ELSE <<" ", r[1]>> \o separatorSplit(Tail(r))
  ELSE <<s[1]>> \o separatorSplit(Tail(s))

RECURSIVE upperRun(_)
\* the length of the run of upper-case letters s starts with
upperRun(s) == IF s # <<>> /\ s[1] \in Upper THEN 1 + upperRun(Tail(s)) ELSE 0

RECURSIVE spaced(_)
\* uppers.toLowerCase().split('').join(' ')
spaced(s) ==
  IF Len(s) <= 1 THEN lowerString(s)
  ELSE <<toLowerCase(s[1]), " ">> \o spaced(Tail(s))

RECURSIVE uncamelize(_)
\* .replace(/(.)([A-Z]+)/g, (m, previous, uppers) =>
\*     previous + ' ' + uppers.toLowerCase().split('').join(' '))
uncamelize(s) ==
  IF s = <<>> THEN <<>>
  ELSE LET n == upperRun(Tail(s)) IN
    IF n > 0
      THEN <<s[1], " ">> \o spaced(SubSeq(s, 2, n + 1)) \o uncamelize(Drop(s, n + 1))
    ELSE <<s[1]>> \o uncamelize(Tail(s))

hasSpace(s) == \E i \in 1..Len(s) : s[i] = " "

\* /(_|-|\.|:)/
hasSeparator(s) == \E i \in 1..Len(s) : s[i] \in {"_", "-", ".", ":"}

\* /([a-z][A-Z]|[A-Z][a-z])/
hasCamel(s) ==
  \E i \in 1..(Len(s) - 1) :
    \/ s[i] \in Lower /\ s[i + 1] \in Upper
    \/ s[i] \in Upper /\ s[i + 1] \in Lower

\* a || b of strings
orElse(a, b) == IF a = <<>> THEN b ELSE a

toNoCase(s) ==
  IF hasSpace(s) THEN lowerString(s)
  ELSE IF hasSeparator(s)
    THEN lowerString(orElse(separatorSplit(s), s))
  ELSE IF hasCamel(s) THEN lowerString(uncamelize(s))
  ELSE lowerString(s)

RECURSIVE trimLeft(_, _)
trimLeft(s, c) == IF s # <<>> /\ s[1] = c THEN trimLeft(Tail(s), c) ELSE s

RECURSIVE trimRight(_, _)
trimRight(s, c) == IF s # <<>> /\ Last(s) = c THEN trimRight(Front(s), c) ELSE s

trim(s, c) == trimRight(trimLeft(s, c), c)

toSpaceCase(s) == trim(separatorSplit(toNoCase(s)), " ")

\* .replace(from, to) of single characters
replaceChar(s, from, to) == [i \in 1..Len(s) |-> IF s[i] = from THEN to ELSE s[i]]

\* toSpaceCase(string).replace(/\s/g, '_')
toSnakeCase(s) == replaceChar(toSpaceCase(s), " ", "_")

(***************************************************************************)
(* snake-case (no-case): the key rewrite of the later snakecase-keys       *)
(***************************************************************************)
\* the "\0" that marks a word boundary
NUL == "NUL"

RECURSIVE splitLowerUpper(_)
\* .replace(/([a-z0-9])([A-Z])/g, "$1\0$2")
splitLowerUpper(s) ==
  IF Len(s) < 2 THEN s
  ELSE IF s[1] \in (Lower \cup Digit) /\ s[2] \in Upper
    THEN <<s[1], NUL, s[2]>> \o splitLowerUpper(Drop(s, 2))
  ELSE <<s[1]>> \o splitLowerUpper(Tail(s))

RECURSIVE splitUpperRun(_)
\* .replace(/([A-Z])([A-Z][a-z])/g, "$1\0$2")
splitUpperRun(s) ==
  IF Len(s) < 3 THEN s
  ELSE IF s[1] \in Upper /\ s[2] \in Upper /\ s[3] \in Lower
    THEN <<s[1], NUL, s[2], s[3]>> \o splitUpperRun(Drop(s, 3))
  ELSE <<s[1]>> \o splitUpperRun(Tail(s))

RECURSIVE stripNonWord(_)
\* .replace(/[^A-Z0-9]+/gi, "\0")
stripNonWord(s) ==
  IF s = <<>> THEN <<>>
  ELSE IF NonWord(s[1]) THEN <<NUL>> \o stripNonWord(skipNonWord(s))
  ELSE <<s[1]>> \o stripNonWord(Tail(s))

\* noCase(input, {delimiter: "_"}): split, strip, trim the boundaries at both
\* ends, lower-case each word, join with "_"
snakeCase(s) ==
  replaceChar(lowerString(trim(stripNonWord(splitUpperRun(splitLowerUpper(s))), NUL)),
              NUL, "_")

\* snakeKey that lower-cases and marks no word boundary
snakeKey_lowerOnly(lib, key) == lowerString(key)

\* the key rewrite of the snakecase-keys release lib
snakeKey(lib, key) == IF lib = "to-snake-case" THEN toSnakeCase(key) ELSE snakeCase(key)

(***************************************************************************)
(* JSON values                                                             *)
(***************************************************************************)
Undefined == [t |-> "undefined", v |-> <<>>]

Null == [t |-> "null", v |-> <<>>]

Str(s) == [t |-> "string", v |-> s]

Num(n) == [t |-> "number", v |-> n]

Bool(b) == [t |-> "boolean", v |-> b]

\* an array: v is the sequence of its elements
Arr(elems) == [t |-> "array", v |-> elems]

\* an object: v is the sequence of its properties [k, val], in insertion order
Obj(props) == [t |-> "object", v |-> props]

Prop(k, val) == [k |-> k, val |-> val]

\* an exception thrown where a value was expected
Thrown == [t |-> "throw", v |-> <<>>]

HasKey(props, k) == \E i \in 1..Len(props) : props[i].k = k

\* target[k] = val: an own property keeps its place, a new one goes last
SetKey(props, k, val) ==
  IF HasKey(props, k)
    THEN [i \in 1..Len(props) |-> IF props[i].k = k THEN Prop(k, val) ELSE props[i]]
    ELSE Append(props, Prop(k, val))

\* x[k]: undefined when x has no such property, a TypeError when x is
\* undefined or null
Get(x, k) ==
  IF x.t \in {"undefined", "null", "throw"} THEN Thrown
  ELSE IF x.t = "object" /\ HasKey(x.v, k)
    THEN x.v[CHOOSE i \in 1..Len(x.v) : x.v[i].k = k].val
  ELSE Undefined

(***************************************************************************)
(* map-obj, camelcase-keys, snakecase-keys                                 *)
(***************************************************************************)
\* the callback the two packages hand to map-obj, named by its rewrite
rewriteKey(fn, key) == IF fn = "camelcase" THEN camelCase(key) ELSE snakeKey(fn, key)

RECURSIVE mapObj(_, _, _)
RECURSIVE mapArray(_, _, _)
RECURSIVE mapProps(_, _, _, _)
RECURSIVE mapProps_rewritesStrings(_, _, _, _)
\* mapProps that hands string values to the key rewrite too
mapProps_rewritesStrings(props, target, fn, deep) ==
  IF props = <<>> THEN target
  ELSE LET val == props[1].val
           newVal == IF deep /\ val.t = "object" THEN mapObj(val, fn, deep)
                     ELSE IF deep /\ val.t = "array" THEN mapArray(val, fn, deep)
                     ELSE IF val.t = "string" THEN Str(rewriteKey(fn, val.v))
                     ELSE val
       IN mapProps_rewritesStrings(Tail(props),
                                   SetKey(target, rewriteKey(fn, props[1].k), newVal), fn, deep)

\* for (const key of Object.keys(obj)): target[fn(key)] = the value, mapped
\* itself when deep and it is an object or an array
mapProps(props, target, fn, deep) ==
  IF props = <<>> THEN target
  ELSE LET val == props[1].val
           newVal == IF deep /\ val.t = "object" THEN mapObj(val, fn, deep)
                     ELSE IF deep /\ val.t = "array" THEN mapArray(val, fn, deep)
                     ELSE val
       IN mapProps(Tail(props), SetKey(target, rewriteKey(fn, props[1].k), newVal), fn, deep)

\* mapArray that does not descend into arrays
mapArray_skipsArrays(arr, fn, deep) == arr

mapArray(arr, fn, deep) ==
  Arr([i \in 1..Len(arr.v) |->
        IF arr.v[i].t = "object" THEN mapObj(arr.v[i], fn, deep)
        ELSE IF arr.v[i].t = "array" THEN mapArray(arr.v[i], fn, deep)
        ELSE arr.v[i]])

\* Object.keys throws on undefined and null and is empty for a number or a
\* boolean
mapObj(obj, fn, deep) ==
  IF obj.t \in {"undefined", "null", "throw"} THEN Thrown
  ELSE IF obj.t = "object" THEN Obj(mapProps(obj.v, <<>>, fn, deep))
  ELSE Obj(<<>>)

\* camelcaseKeys(input, {deep}): an array is converted element by element
camelcaseKeys(input, deep) ==
  IF input.t = "array"
    THEN Arr([i \in 1..Len(input.v) |-> mapObj(input.v[i], "camelcase", deep)])
    ELSE mapObj(input, "camelcase", deep)

\* snakecaseKeys(obj, {deep}) of the release lib
snakecaseKeys(lib, obj, deep) == mapObj(obj, lib, deep)

(***************************************************************************)
(* JSON text: a sequence of tokens.  JSON.stringify and JSON.parse         *)
(***************************************************************************)
Punct(c) == <<"punct", c>>

StrTok(s) == <<"string", s>>

NumTok(n) == <<"number", n>>

LitTok(l) == <<"literal", l>>

RECURSIVE stringify(_)
RECURSIVE stringifyProps(_, _)
RECURSIVE stringifyElems(_, _)
\* the properties of an object; one whose value is undefined is left out
stringifyProps(props, first) ==
  IF props = <<>> THEN <<>>
  ELSE IF props[1].val.t = "undefined" THEN stringifyProps(Tail(props), first)
  ELSE (IF first THEN <<>> ELSE <<Punct(",")>>)
         \o <<StrTok(props[1].k), Punct(":")>> \o stringify(props[1].val)
         \o stringifyProps(Tail(props), FALSE)

\* the elements of an array; an undefined element is written null
stringifyElems(elems, first) ==
  IF elems = <<>> THEN <<>>
  ELSE (IF first THEN <<>> ELSE <<Punct(",")>>)
         \o (IF elems[1].t = "undefined" THEN <<LitTok("null")>> ELSE stringify(elems[1]))
         \o stringifyElems(Tail(elems), FALSE)

\* JSON.stringify(value) of a value that is not undefined
stringify(x) ==
  IF x.t = "object" THEN <<Punct("{")>> \o stringifyProps(x.v, TRUE) \o <<Punct("}")>>
  ELSE IF x.t = "array" THEN <<Punct("[")>> \o stringifyElems(x.v, TRUE) \o <<Punct("]")>>
  ELSE IF x.t = "string" THEN <<StrTok(x.v)>>
  ELSE IF x.t = "number" THEN <<NumTok(x.v)>>
  ELSE IF x.t = "boolean" THEN <<LitTok(IF x.v THEN "true" ELSE "false")>>
  ELSE <<LitTok("null")>>

Parsed(val, next) == [ok |-> TRUE, val |-> val, next |-> next]

SyntaxError == [ok |-> FALSE, val |-> Thrown, next |-> 0]

IsTok(toks, i, tok) == i <= Len(toks) /\ toks[i] = tok

RECURSIVE parseValue(_, _)
RECURSIVE parseElems(_, _, _)
RECURSIVE parseProps(_, _, _)
\* r is the element just parsed: "," or "]" must follow it
afterElem(toks, acc, r) ==
  IF ~r.ok THEN SyntaxError
  ELSE IF IsTok(toks, r.next, Punct(",")) THEN parseElems(toks, r.next + 1, Append(acc, r.val))
  ELSE IF IsTok(toks, r.next, Punct("]")) THEN Parsed(Arr(Append(acc, r.val)), r.next + 1)
  ELSE SyntaxError

\* after "[" or ",": a value, then "," or "]"
parseElems(toks, i, acc) == afterElem(toks, acc, parseValue(toks, i))

\* r is the value just parsed for the name key: "," or "}" must follow it.  A
\* repeated name keeps its first place and takes the last value
afterProp(toks, acc, key, r) ==
  IF ~r.ok THEN SyntaxError
  ELSE IF IsTok(toks, r.next, Punct(","))
    THEN parseProps(toks, r.next + 1, SetKey(acc, key, r.val))
  ELSE IF IsTok(toks, r.next, Punct("}"))
    THEN Parsed(Obj(SetKey(acc, key, r.val)), r.next + 1)
  ELSE SyntaxError

\* after "{" or ",": a name, ":", a value, then "," or "}"
parseProps(toks, i, acc) ==
  IF ~(i + 1 <= Len(toks) /\ toks[i][1] = "string" /\ toks[i + 1] = Punct(":"))
    THEN SyntaxError
  ELSE afterProp(toks, acc, toks[i][2], parseValue(toks, i + 2))

parseValue(toks, i) ==
  IF i > Len(toks) THEN SyntaxError
  ELSE LET tok == toks[i] IN
    IF tok[1] = "string" THEN Parsed(Str(tok[2]), i + 1)
    ELSE IF tok[1] = "number" THEN Parsed(Num(tok[2]), i + 1)
    ELSE IF tok[1] = "literal"
      THEN Parsed(IF tok[2] = "null" THEN Null ELSE Bool(tok[2] = "true"), i + 1)
    ELSE IF tok = Punct("[")
      THEN IF IsTok(toks, i + 1, Punct("]")) THEN Parsed(Arr(<<>>), i + 2)
           ELSE parseElems(toks, i + 1, <<>>)
    ELSE IF tok = Punct("{")
      THEN IF IsTok(toks, i + 1, Punct("}")) THEN Parsed(Obj(<<>>), i + 2)
           ELSE parseProps(toks, i + 1, <<>>)
    ELSE SyntaxError

\* JSON.parse(text): the value, or Thrown for text that is not one JSON value
wholeText(text, r) == IF r.ok /\ r.next = Len(text) + 1 THEN r.val ELSE Thrown

parse(text) == wholeText(text, parseValue(text, 1))

(***************************************************************************)
(* Bounds and the inputs drawn from them                                   *)
(***************************************************************************)
\* getUsers dispatches in one run
MaxGets == 2

\* updateUsers requests in flight at once
MaxPosts == 1

\* length of the generated keys of the server's documents
MaxKeyLen == 2

\* length of the generated keys handed to the key rewrites directly
MaxFnKeyLen == 3

\* the characters of generated keys: a lower-case letter, an upper-case
\* letter and the underscore
KeyChars == {"a", "B", "_"}

RECURSIVE KeysOfLen(_)
KeysOfLen(n) ==
  IF n = 0 THEN {<<>>}
  ELSE {<<c>> \o k : c \in KeyChars, k \in KeysOfLen(n - 1)}

KeysUpTo(n) == UNION {KeysOfLen(m) : m \in 1..n}

K_users == <<"u","s","e","r","s">>

K_first_name == <<"f","i","r","s","t","_","n","a","m","e">>

K_firstName == <<"f","i","r","s","t","N","a","m","e">>

K_userID == <<"u","s","e","r","I","D">>

K_user_id == <<"u","s","e","r","_","i","d">>

K_user_i_d == <<"u","s","e","r","_","i","_","d">>

K_friends == <<"f","r","i","e","n","d","s">>

K_id == <<"i","d">>

\* keys as servers and applications write them, beside the generated ones
ServerKeys ==
  { K_first_name, K_firstName, K_user_id, <<"l","i","n","e","_","1">>,
    <<"a","_","b","_","c">>, <<"a","_","b","_","c","d">> }

ExampleKeys ==
  ServerKeys \cup
  { K_users, K_userID, <<"u","s","e","r","s","_">>, <<"U","s","e","r","s">>,
    <<"a","b","_","c","d">>, <<"a","b","_","c","_","d">> }

AppKeys == KeysUpTo(MaxKeyLen) \cup ServerKeys

FnKeys == KeysUpTo(MaxFnKeyLen) \cup ExampleKeys

S_Alice == <<"A","l","i","c","e">>

S_a_b == <<"a","_","b">>

S_aB == <<"a","B">>

\* top-level keys of the server's documents
TopKeys == {K_users, <<"u","s","e","r","s","_">>, <<"U","s","e","r","s">>, K_user_id}

\* the documents the server answers with
Docs ==
     { Obj(<<Prop(K_users,
                Arr(<<Obj(<<Prop(k, Str(S_Alice)),
                            Prop(K_friends, Arr(<<Obj(<<Prop(k, Str(S_a_b))>>)>>)),
                            Prop(K_id, Obj(<<Prop(k, Bool(TRUE))>>))>>)>>))>>) : k \in AppKeys }
  \cup { Obj(<<Prop(k, Arr(<<Obj(<<Prop(K_first_name, Str(S_Alice))>>)>>)),
             Prop(K_id, Null)>>) : k \in TopKeys }
  \cup { Obj(<<Prop(K_users, Arr(<<Obj(<<Prop(K_first_name, Str(S_Alice))>>)>>))>>),
         Obj(<<Prop(K_users, Arr(<<Obj(<<Prop(S_a_b, Num(1)), Prop(S_aB, Num(2))>>)>>))>>),
         Obj(<<Prop(K_users, Arr(<<>>))>>),
         Obj(<<Prop(K_users, Str(S_a_b))>>),
         Arr(<<Obj(<<Prop(K_first_name, Str(S_Alice))>>)>>),
         Num(1),
         Null }

\* response bodies: the documents as JSON text, text that is not JSON, and
\* the empty body
ServerBodies == {stringify(d) : d \in Docs} \cup {<<Punct("{")>>, <<>>}

\* headers['content-type'] of a message; NoHeader when the header is absent
NoHeader == "undefined"

JsonContentTypes == {"application/json", "application/json; charset=utf-8"}

\* the README's response, {"users":[{"first_name":"Alice"}]}, as wire text
ReadmeBody == stringify(Obj(<<Prop(K_users, Arr(<<Obj(<<Prop(K_first_name, Str(S_Alice))>>)>>))>>))

RequestContentTypes == {"application/json", "application/x-www-form-urlencoded", NoHeader}

\* bodies sent under a content type that is not JSON
OtherBodies == {<<>>, <<StrTok(S_a_b)>>, ReadmeBody}

\* what a server can answer: [ct, text]
Responses ==
     { [ct |-> "application/json", text |-> b] : b \in ServerBodies }
  \cup { [ct |-> "application/json; charset=utf-8", text |-> b] : b \in {ReadmeBody, <<>>} }
  \cup { [ct |-> ct, text |-> b] : ct \in {"text/html", NoHeader}, b \in OtherBodies }

(***************************************************************************)
(* The transforms installed on axios (src/index.js:9-19, 41-45)            *)
(***************************************************************************)
\* a string of wire text, as a value
Text(toks) == [t |-> "text", v |-> toks]

\* the truthiness `data && ...` tests
truthy(x) ==
  /\ x.t \notin {"undefined", "null", "throw"}
  /\ x.t = "text" => x.v # <<>>
  /\ x.t = "string" => x.v # <<>>
  /\ x.t = "number" => x.v # 0
  /\ x.t = "boolean" => x.v

\* headers['content-type'].includes('application/json')
includes(ct, what) == what = "application/json" /\ ct \in JsonContentTypes

\* JSON.parse of a text value
JSONparse(data) == IF data.t = "text" THEN parse(data.v) ELSE Thrown

\* JSON.stringify of a value
JSONstringify(x) == IF x.t \in {"undefined", "throw"} THEN x ELSE Text(stringify(x))

\* transformResponse without the deep option
transformResponse_shallow(data, ct) ==
  IF ~truthy(data) THEN Undefined
  ELSE IF ct = NoHeader THEN Thrown
  ELSE IF includes(ct, "application/json") THEN camelcaseKeys(JSONparse(data), FALSE)
  ELSE Undefined

\* transformResponse that hands back the body it does not convert
transformResponse_passesThrough(data, ct) ==
  IF ~truthy(data) THEN data
  ELSE IF ct = NoHeader THEN Thrown
  ELSE IF includes(ct, "application/json") THEN camelcaseKeys(JSONparse(data), TRUE)
  ELSE data

\* axios.defaults.transformResponse[0]
transformResponse(data, ct) ==
  IF ~truthy(data) THEN Undefined
  ELSE IF ct = NoHeader THEN Thrown
  ELSE IF includes(ct, "application/json") THEN camelcaseKeys(JSONparse(data), TRUE)
  ELSE Undefined

\* axios.defaults.transformRequest[0]
transformRequest(lib, data, ct) ==
  IF ~truthy(data) THEN Undefined
  ELSE IF ct = NoHeader THEN Thrown
  ELSE IF includes(ct, "application/json")
    THEN JSONstringify(snakecaseKeys(lib, data, TRUE))
  ELSE Undefined

\* the transformRequest of updateUsers without the call of snakecaseKeys
updateUsersTransformRequest_plain(lib, data) == JSONstringify(data)

\* the transformRequest of updateUsers without the deep option
updateUsersTransformRequest_shallow(lib, data) ==
  JSONstringify(snakecaseKeys(lib, data, FALSE))

\* the transformRequest updateUsers passes with its request
updateUsersTransformRequest(lib, data) == JSONstringify(snakecaseKeys(lib, data, TRUE))

(***************************************************************************)
(* The store and the two actions (src/index.js:25-57, 65-72)               *)
(***************************************************************************)
VARIABLES
  users,       \* state.users
  snakeLib,    \* the key rewrite of the installed snakecase-keys
  nextId,      \* the number the next getUsers request gets
  inflight,    \* the getUsers requests awaiting their response
  lastCommit,  \* the response SET_USERS was last committed from: [id, text]
  prevCommit,  \* the request of the commit before that one, 0 when there is none
  posts,       \* the updateUsers requests awaiting their response
  last,        \* the last step taken: [op, id, ct, text, data, outcome]
  fnIn,        \* the value last handed to a key conversion
  fnOut,       \* what the conversion returned
  fnOp         \* [fn, deep]: the conversion and its deep option

vars == <<users, snakeLib, nextId, inflight, lastCommit, prevCommit, posts, last,
          fnIn, fnOut, fnOp>>

appVars == <<users, nextId, inflight, lastCommit, prevCommit, posts, last>>

fnVars == <<fnIn, fnOut, fnOp>>

SnakeLibs == {"to-snake-case", "snake-case"}

NoStep == [op |-> "none", id |-> 0, ct |-> NoHeader, text |-> Undefined,
           data |-> Undefined, outcome |-> "none"]

NoCommit == [id |-> 0, text |-> <<>>]

NoFn == [fn |-> "none", deep |-> FALSE]

\* state: { users: [] }
Init ==
  /\ users = Arr(<<>>)
  /\ snakeLib \in SnakeLibs
  /\ nextId = 1
  /\ inflight = {}
  /\ lastCommit = NoCommit
  /\ prevCommit = 0
  /\ posts = 0
  /\ last = NoStep
  /\ fnIn = Undefined
  /\ fnOut = Undefined
  /\ fnOp = NoFn

\* SET_USERS that adds the payload to the users already there
SET_USERS_appends(stateUsers, payload) ==
  IF stateUsers.t = "array" /\ payload.t = "array"
    THEN Arr(stateUsers.v \o payload.v)
    ELSE payload

\* mutations.SET_USERS: state.users = payload
SET_USERS(stateUsers, payload) == payload

\* methods.fetchUsers -> actions.getUsers: axios.get(url).  The request has
\* no data, so the request transform is handed undefined
fetchUsers ==
  /\ nextId <= MaxGets
  /\ inflight' = inflight \cup {nextId}
  /\ nextId' = nextId + 1
  /\ last' = [op |-> "getUsers", id |-> nextId, ct |-> NoHeader,
              text |-> transformRequest(snakeLib, Undefined, NoHeader),
              data |-> Undefined, outcome |-> "pending"]
  /\ UNCHANGED <<users, snakeLib, lastCommit, prevCommit, posts, fnVars>>

\* the response to request id arrives: transformResponse makes res.data, then
\* the .then callback reads res.data.users and commits SET_USERS.  A throw in
\* either rejects the promise and nothing is committed.
getUsersResponse(id, res) ==
  \E data \in {transformResponse(Text(res.text), res.ct)} :
  \E payload \in {Get(data, K_users)} :
  \E rejected \in {data = Thrown \/ payload = Thrown} :
     /\ id \in inflight
     /\ inflight' = inflight \ {id}
     /\ users' = IF rejected THEN users ELSE SET_USERS(users, payload)
     /\ lastCommit' = IF rejected THEN lastCommit ELSE [id |-> id, text |-> res.text]
     /\ prevCommit' = IF rejected THEN prevCommit ELSE lastCommit.id
     /\ last' = [op |-> "getUsersResponse", id |-> id, ct |-> res.ct,
                 text |-> Text(res.text), data |-> data,
                 outcome |-> IF rejected THEN "rejected" ELSE "resolved"]
     /\ UNCHANGED <<snakeLib, nextId, posts, fnVars>>

\* request id fails without a response: the promise is rejected
getUsersError(id) ==
  /\ id \in inflight
  /\ inflight' = inflight \ {id}
  /\ last' = [op |-> "getUsersError", id |-> id, ct |-> NoHeader, text |-> Undefined,
              data |-> Undefined, outcome |-> "rejected"]
  /\ UNCHANGED <<users, snakeLib, nextId, lastCommit, prevCommit, posts, fnVars>>

\* updateUsers whose conversion renames the keys of state.users in place
updateUsers_inPlace(ct) ==
  \E data \in {Obj(<<Prop(K_users, users)>>)} :
  /\ posts < MaxPosts
  /\ posts' = posts + 1
  /\ users' = Get(snakecaseKeys(snakeLib, data, TRUE), K_users)
  /\ last' = [op |-> "updateUsers", id |-> 0, ct |-> ct,
              text |-> updateUsersTransformRequest(snakeLib, data),
              data |-> data, outcome |-> "pending"]
  /\ UNCHANGED <<snakeLib, nextId, inflight, lastCommit, prevCommit, fnVars>>

\* methods.updateUsers -> actions.updateUsers: axios.post(url, { users },
\* { transformRequest }) with state.users; ct is the request's content type
updateUsers(ct) ==
  \E data \in {Obj(<<Prop(K_users, users)>>)} :
  /\ posts < MaxPosts
  /\ posts' = posts + 1
  /\ last' = [op |-> "updateUsers", id |-> 0, ct |-> ct,
              text |-> updateUsersTransformRequest(snakeLib, data),
              data |-> data, outcome |-> "pending"]
  /\ UNCHANGED <<users, snakeLib, nextId, inflight, lastCommit, prevCommit, fnVars>>

\* the POST completes; its promise, resolved or rejected, has no handler
updateUsersSettled(outcome) ==
  /\ posts > 0
  /\ posts' = posts - 1
  /\ last' = [op |-> "updateUsersSettled", id |-> 0, ct |-> NoHeader, text |-> Undefined,
              data |-> Undefined, outcome |-> outcome]
  /\ UNCHANGED <<users, snakeLib, nextId, inflight, lastCommit, prevCommit, fnVars>>

Next ==
  \/ fetchUsers
  \/ \E id \in 1..MaxGets, res \in Responses : getUsersResponse(id, res)
  \/ \E id \in 1..MaxGets : getUsersError(id)
  \/ \E ct \in RequestContentTypes : updateUsers(ct)
  \/ \E outcome \in {"resolved", "rejected"} : updateUsersSettled(outcome)

Spec == Init /\ [][Next]_vars

(***************************************************************************)
(* The two conversions on their own: camelcaseKeys and snakecaseKeys       *)
(* called on a value, and again on what the call before returned           *)
(***************************************************************************)
\* the values handed to the conversions: an object whose two properties hold
\* a string, and an array of an object, a string and a boolean
FnInputs ==
  { Obj(<<Prop(k1, Str(S_a_b)),
          Prop(k2, Arr(<<Obj(<<Prop(k1, Num(1)), Prop(k2, Null)>>),
                         Str(S_aB), Bool(TRUE)>>))>>) :
      <<k1, k2>> \in {kk \in FnKeys \X AppKeys : kk[1] # kk[2]} }

InitFn ==
  /\ users = Arr(<<>>)
  /\ snakeLib \in SnakeLibs
  /\ nextId = 1
  /\ inflight = {}
  /\ lastCommit = NoCommit
  /\ prevCommit = 0
  /\ posts = 0
  /\ last = NoStep
  /\ fnIn \in FnInputs
  /\ fnOut = Undefined
  /\ fnOp = NoFn

\* the value the next call is handed
fnArg == IF fnOp = NoFn THEN fnIn ELSE fnOut

callCamelcaseKeys(deep) ==
  \E arg \in {fnArg} :
    /\ fnIn' = arg
    /\ fnOut' = camelcaseKeys(arg, deep)
    /\ fnOp' = [fn |-> "camelcase", deep |-> deep]
    /\ UNCHANGED <<appVars, snakeLib>>

callSnakecaseKeys(deep) ==
  \E arg \in {fnArg} :
    /\ fnIn' = arg
    /\ fnOut' = snakecaseKeys(snakeLib, arg, deep)
    /\ fnOp' = [fn |-> snakeLib, deep |-> deep]
    /\ UNCHANGED <<appVars, snakeLib>>

NextFn ==
  \/ \E deep \in BOOLEAN : callCamelcaseKeys(deep)
  \/ \E deep \in BOOLEAN : callSnakecaseKeys(deep)

SpecFn == InitFn /\ [][NextFn]_vars

(***************************************************************************)
(* Vocabulary of the properties                                            *)
(***************************************************************************)
RECURSIVE AllKeys(_)
\* the mapping keys of a value, at every depth
AllKeys(x) ==
  IF x.t = "object"
    THEN {x.v[i].k : i \in 1..Len(x.v)} \cup UNION {AllKeys(x.v[i].val) : i \in 1..Len(x.v)}
  ELSE IF x.t = "array" THEN UNION {AllKeys(x.v[i]) : i \in 1..Len(x.v)}
  ELSE {}

RECURSIVE Skeleton(_)
\* a value with its mapping keys erased: the leaves, the sequences and the
\* nesting, in order
Skeleton(x) ==
  IF x.t = "object" THEN <<"object", [i \in 1..Len(x.v) |-> Skeleton(x.v[i].val)]>>
  ELSE IF x.t = "array" THEN <<"array", [i \in 1..Len(x.v) |-> Skeleton(x.v[i])]>>
  ELSE <<"leaf", x>>

RECURSIVE NoCollision(_, _)
\* no mapping of x, at any depth, has two keys that fn rewrites to one key
NoCollision(x, fn) ==
  IF x.t = "object"
    THEN /\ \A i, j \in 1..Len(x.v) :
              i # j => rewriteKey(fn, x.v[i].k) # rewriteKey(fn, x.v[j].k)
         /\ \A i \in 1..Len(x.v) : NoCollision(x.v[i].val, fn)
  ELSE IF x.t = "array" THEN \A i \in 1..Len(x.v) : NoCollision(x.v[i], fn)
  ELSE TRUE

\* the value with every mapping key at every depth rewritten by fn
DeepRewrite(x, fn) ==
  IF x.t = "object" THEN mapObj(x, fn, TRUE)
  ELSE IF x.t = "array" THEN mapArray(x, fn, TRUE)
  ELSE x

\* an underscore followed by a letter: a snake_case word boundary
HasSnakeBoundary(k) == \E i \in 1..(Len(k) - 1) : k[i] = "_" /\ k[i + 1] \in Letter

HasUpper(k) == \E i \in 1..Len(k) : k[i] \in Upper

\* valid snake_case: words of lower-case letters and digits joined by single
\* underscores, the first character a letter
ValidSnake(k) ==
  /\ k # <<>>
  /\ \A i \in 1..Len(k) : k[i] \in Lower \cup Digit \cup {"_"}
  /\ k[1] \in Lower /\ k[Len(k)] # "_"
  /\ \A i \in 1..(Len(k) - 1) : ~(k[i] = "_" /\ k[i + 1] = "_")

\* lower-case words joined by single underscores, no one-letter word after the
\* first directly followed by another one-letter word
StrictSnake(k) ==
  /\ k # <<>>
  /\ \A i \in 1..Len(k) : k[i] \in Lower \cup {"_"}
  /\ k[1] # "_" /\ k[Len(k)] # "_"
  /\ \A i \in 1..(Len(k) - 1) : ~(k[i] = "_" /\ k[i + 1] = "_")
  /\ \A i \in 2..(Len(k) - 2) :
       ~(/\ k[i - 1] = "_" /\ k[i + 1] = "_"
         /\ (i + 2 = Len(k) \/ k[i + 3] = "_"))

\* letters only, the first lower-case, no two upper-case letters adjacent
SimpleCamel(k) ==
  /\ k # <<>>
  /\ \A i \in 1..Len(k) : k[i] \in Letter
  /\ k[1] \in Lower
  /\ \A i \in 1..(Len(k) - 1) : ~(k[i] \in Upper /\ k[i + 1] \in Upper)

RECURSIVE UnderscoreBeforeUpper(_)
\* an underscore before every upper-case letter, the whole key lower-cased
UnderscoreBeforeUpper(k) ==
  IF k = <<>> THEN <<>>
  ELSE (IF k[1] \in Upper THEN <<"_", toLowerCase(k[1])>> ELSE <<k[1]>>)
         \o UnderscoreBeforeUpper(Tail(k))

\* [{firstName: "Alice"}]
ReadmeUsers == Arr(<<Obj(<<Prop(K_firstName, Str(S_Alice))>>)>>)

\* the last step was a getUsers response of JSON content type and non-empty
\* body from which SET_USERS was committed
JsonCommitted ==
  /\ last.op = "getUsersResponse"
  /\ includes(last.ct, "application/json")
  /\ last.text.v # <<>>
  /\ last.outcome = "resolved"

\* the top-level keys of x whose camelCase form is users
UsersKeys(x) ==
  IF x.t = "object"
    THEN {x.v[i].k : i \in {j \in 1..Len(x.v) : camelCase(x.v[j].k) = K_users}}
    ELSE {}

(***************************************************************************)
(* C1                                                                      *)
(***************************************************************************)
\* C1 as stated: after a getUsers response of JSON content type and non-empty
\* body is committed, state.users is the users field of the parsed body with
\* every mapping key at every depth rewritten to camelCase.
C1_AsStated ==
  JsonCommitted =>
    users = DeepRewrite(Get(parse(last.text.v), K_users), "camelcase")

\* C1, amended: after such a commit state.users is the users property of the
\* camelCased body: the value of the top-level key whose camelCase form is
\* users (the parsed body's users field when users is the only such key),
\* with every mapping key at every depth rewritten to camelCase.  The README's body
\* {"users":[{"first_name":"Alice"}]} leaves [{firstName: "Alice"}].
C1_CommittedIsCamelCasedUsers ==
  JsonCommitted =>
    /\ users = Get(DeepRewrite(parse(last.text.v), "camelcase"), K_users)
    /\ UsersKeys(parse(last.text.v)) = {K_users} =>
         users = DeepRewrite(Get(parse(last.text.v), K_users), "camelcase")
    /\ last.text.v = ReadmeBody => users = ReadmeUsers

\* the README's response has been committed
C1_Witness == JsonCommitted /\ last.text.v = ReadmeBody /\ users = ReadmeUsers

(***************************************************************************)
(* C2                                                                      *)
(***************************************************************************)
\* C2: the body updateUsers puts on the wire is the JSON text of { users }
\* with every mapping key at every depth rewritten to snake_case: the text
\* parses to that rewritten value, and no key in it has an upper-case letter
\* or is changed by a further rewrite.
C2_WireIsSnakeCase ==
  last.op = "updateUsers" =>
    /\ last.data = Obj(<<Prop(K_users, users)>>)
    /\ last.text = Text(stringify(DeepRewrite(last.data, snakeLib)))
    /\ \A k \in AllKeys(parse(last.text.v)) : ~HasUpper(k) /\ snakeKey(snakeLib, k) = k
    /\ users = ReadmeUsers => last.text = Text(ReadmeBody)

\* users with a camelCase key inside an array inside an object was posted
C2_Witness ==
  /\ last.op = "updateUsers"
  /\ \E k \in AllKeys(users) : HasUpper(k)
  /\ \E k \in AllKeys(parse(last.text.v)) : HasSnakeBoundary(k)

(***************************************************************************)
(* C3                                                                      *)
(***************************************************************************)
\* C3 as stated: a request or response whose content type does not include
\* application/json has neither key conversion applied to its body: the
\* request body is the unconverted data, the response data is no converted
\* object.
C3_NonJsonBypasses ==
  /\ (last.op = "updateUsers" /\ ~includes(last.ct, "application/json"))
       => last.text \in {Undefined, Thrown, JSONstringify(last.data)}
  /\ (last.op = "getUsersResponse" /\ ~includes(last.ct, "application/json"))
       => last.data \in {Undefined, Thrown}

(***************************************************************************)
(* C4                                                                      *)
(***************************************************************************)
\* the last step posted the users committed from the response lastCommit
PostedAfterCommit == last.op = "updateUsers" /\ lastCommit.id # 0

\* C4 as stated: when the keys of the response are valid snake_case (words of
\* lower-case letters and digits joined by single underscores), the users field
\* of the posted body is the users field of the response.
C4_AsStated ==
  (PostedAfterCommit /\ \A k \in AllKeys(parse(lastCommit.text)) : ValidSnake(k))
    => Get(parse(last.text.v), K_users) = Get(parse(lastCommit.text), K_users)

\* C4, amended: when every key of the response is lower-case letter words
\* joined by single underscores (no digit, no leading, trailing or doubled
\* underscore) and no one-letter word after the first is directly followed by
\* another one-letter word, the users field of the posted body is the users
\* field of the response.
C4_RoundTripOfStrictSnake ==
  (PostedAfterCommit /\ \A k \in AllKeys(parse(lastCommit.text)) : StrictSnake(k))
    => Get(parse(last.text.v), K_users) = Get(parse(lastCommit.text), K_users)

\* the README's response was committed and posted back
C4_Witness ==
  /\ PostedAfterCommit
  /\ lastCommit.text = ReadmeBody
  /\ users = ReadmeUsers
  /\ last.text = Text(ReadmeBody)

(***************************************************************************)
(* C5                                                                      *)
(***************************************************************************)
\* a conversion has been called
Converted == fnOp.fn # "none"

C6_NoSnakeKeyInState == \A k \in AllKeys(users) : ~HasSnakeBoundary(k)

\* a response with a snake_case key below the top level has been committed
C6_Witness ==
  /\ lastCommit.id # 0
  /\ \E k \in AllKeys(Get(parse(lastCommit.text), K_users)) : HasSnakeBoundary(k)
  /\ K_friends \in AllKeys(users)

(***************************************************************************)
(* C7                                                                      *)
(***************************************************************************)
\* snakecaseKeys has been called on an object
SnakeCalled == fnOp.fn \in SnakeLibs /\ fnIn.t = "object"

C8_UpdateUsersKeepsState == [][posts' # posts => users' = users]_vars

\* a POST of users with camelCase keys has been rejected
C8_Witness ==
  /\ last.op = "updateUsersSettled"
  /\ last.outcome = "rejected"
  /\ \E k \in AllKeys(users) : HasUpper(k)

(***************************************************************************)
(* C9                                                                      *)
(***************************************************************************)
\* C9: when the response to getUsers has an empty body, or a content type
\* that does not include application/json, the response transform returns
\* undefined, the promise is rejected, nothing is committed and state.users
\* is what it was.
C9_NoDataNoCommit ==
  [][(/\ inflight' # inflight
      /\ last'.op = "getUsersResponse"
      /\ \/ last'.text.v = <<>>
         \/ last'.ct # NoHeader /\ ~includes(last'.ct, "application/json"))
     => /\ last'.data = Undefined
        /\ last'.outcome = "rejected"
        /\ users' = users
        /\ lastCommit' = lastCommit]_vars

\* a text/html response with a body arrived after users had been committed
C9_Witness ==
  /\ last.op = "getUsersResponse"
  /\ last.ct = "text/html"
  /\ last.text.v # <<>>
  /\ last.outcome = "rejected"
  /\ users = ReadmeUsers

(***************************************************************************)
(* C10                                                                     *)
(***************************************************************************)
\* the users property of the camelCased body
CamelUsers(text) == Get(camelcaseKeys(parse(text), TRUE), K_users)

\* C10: state.users is the initial empty list or the whole camelCased users
\* of one response, the one that was committed last, whatever the order the
\* requests were issued in; a response that has just resolved is that one.
C10_LastArrivalWins ==
  /\ users = IF lastCommit.id = 0 THEN Arr(<<>>) ELSE CamelUsers(lastCommit.text)
  /\ (last.op = "getUsersResponse" /\ last.outcome = "resolved")
       => lastCommit = [id |-> last.id, text |-> last.text.v]
  /\ lastCommit.id \notin inflight

\* the second request's response was committed first, the first request's
\* last, and state.users is the users of the first request's response
C10_Witness ==
  /\ prevCommit = 2
  /\ lastCommit.id = 1
  /\ inflight = {}
  /\ users = ReadmeUsers

====
